---- MODULE Spec2Model ----
(***************************************************************************)
(* Model of the prerequisite pipeline of KubeOne (pkg/tasks/               *)
(* prerequisites.go): the per-host install task, the image pre-pull, the   *)
(* generation and upload of the configuration bundle and the               *)
(* nm-cloud-setup handling that reboots RHEL hosts.                        *)
(*                                                                         *)
(* The task runner (state.RunTaskOnAllNodes), the connection cache         *)
(* (ssh.Connector), the OS dispatcher (runOnOS) and the order in which the *)
(* pipeline calls the functions of prerequisites.go live outside the       *)
(* modelled file; they are modelled from the design document.              *)
(***************************************************************************)
EXTENDS Integers, Sequences, FiniteSets, TLC

\* ------------------------------------------------------------------ bounds
NumHosts == 2

\* the runs of the pipeline the operator makes
MaxRuns == 2

Hosts == 1..NumHosts

\* ------------------------------------------------------- operating systems
OperatingSystemNameAmazon  == "amzn"
OperatingSystemNameCentOS  == "centos"
OperatingSystemNameDebian  == "debian"
OperatingSystemNameFlatcar == "flatcar"
OperatingSystemNameRHEL    == "rhel"
OperatingSystemNameUbuntu  == "ubuntu"
OperatingSystemNameUnknown == "unknown"

OSNames ==
  { OperatingSystemNameAmazon, OperatingSystemNameCentOS,
    OperatingSystemNameDebian, OperatingSystemNameFlatcar,
    OperatingSystemNameRHEL, OperatingSystemNameUbuntu,
    OperatingSystemNameUnknown }

\* ------------------------------------------------------------ run modes
RunSequence == "sequence"
RunParallel == "parallel"

\* ------------------------------------------------------------------ state
VARIABLES
  os,           \* registry: host -> operating system
  initialized,  \* registry: host -> already member of the cluster
  proxySet,     \* some of Proxy.HTTP / HTTPS / NoProxy is non-empty
  forceInstall, \* s.ForceInstall
  faults,       \* environment: the stages in which a step may fail
  unrenderable, \* environment: the scripts whose template fails to render
  features,     \* s.Cluster.Features, as far as generation reads it
  stage,        \* position of the pipeline
  failedAt,     \* the stage whose error made the pipeline Fatal, or "none"
  tstate,       \* runner: host -> "pending" | "running" | "done"
  result,       \* runner: host -> error returned by the host's task
  attempts,     \* runner: host -> times the task was started in this call
  errs,         \* runner: the errors collected from the tasks of this call
  ret,          \* error returned by the last RunTaskOnAllNodes call
  cache,        \* connector: host -> cached connection (0: none)
  gen,          \* host -> number of connections opened so far
  closed,       \* host -> set of connections of the host that were closed
  held,         \* host -> connection handed to the host's running task
  log,          \* host -> events of the host, in order
  bundle,       \* s.Configuration: sequence of <<path, content>>
  workdir,      \* host -> entries transferred to the working directory
  run,          \* number of this run of the pipeline
  installed,    \* host -> times an install script carried out the installation
  flagless      \* environment: what an install script given no flag does

vars == << os, initialized, proxySet, forceInstall, faults, unrenderable,
           features, stage,
           failedAt,
           tstate, result, attempts, errs, ret, cache, gen, closed, held,
           log, bundle, workdir, run, installed, flagless >>

registry ==
  << os, initialized, proxySet, forceInstall, faults, unrenderable, features,
     flagless >>

\* ------------------------------------------------------------------ errors
\* An error is a tuple of strings: <<>> is nil, a wrapped error carries the
\* message in front of its cause (errors.Wrap / fmt.Errorf with %w).
NoErr == << >>

Wrap(err, msg) == IF err = NoErr THEN NoErr ELSE << msg >> \o err

\* outcome of running one script over the connection, drawn by the environment
Outcomes == { "ok", "run" }

\* An event on a host: a script run over the connection (with the argument
\* that was rendered into it), the transfer of the bundle, the grace-period
\* sleep or the close of the connection, and how it ended.
Ev(name, arg, status) == << name, arg, status >>

ForceArg(force) == IF force THEN "force" ELSE "noforce"

\* A step of a task: the events it leaves on the host and the error it returns.
Nothing == [ events |-> << >>, err |-> NoErr ]

\* cmd, err := scripts.X(...); if err != nil { return err };
\* _, _, err = s.Runner.RunRaw(cmd); return err
RunScript(name, arg, oc) ==
  IF name \in unrenderable
    THEN [ events |-> << >>, err |-> << "render", name >> ]
    ELSE [ events |-> << Ev(name, arg, IF oc = "run" THEN "failed" ELSE "ok") >>,
           err    |-> IF oc = "run" THEN << "run", name >> ELSE NoErr ]

\* a; if err != nil { return err }; b
Then(a, b) ==
  IF a.err # NoErr THEN a
  ELSE [ events |-> a.events \o b.events, err |-> b.err ]

Wrapped(a, msg) == [ events |-> a.events, err |-> Wrap(a.err, msg) ]

\* ------------------------------------------------------ install, per node
createEnvironmentFile(oc) == RunScript("environment-file", "-", oc)

\* containerRuntimeEnvironment without the test of the proxy variables
containerRuntimeEnvironmentAlways(proxy, oc) ==
  RunScript("daemons-environment-drop-in", "-", oc)

containerRuntimeEnvironment(proxy, oc) ==
  IF ~proxy THEN Nothing
  ELSE RunScript("daemons-environment-drop-in", "-", oc)

setupProxy(proxy, ocEnv, ocDropIn) ==
  Then(Wrapped(createEnvironmentFile(ocEnv),
               "failed to create environment file"),
       Wrapped(containerRuntimeEnvironment(proxy, ocDropIn),
               "failed to configure proxy for docker daemon"))

\* the dispatch table with RHEL sent to the Debian procedure
installKubeadmTableRHELDebian ==
  [ amzn    |-> "installKubeadmAmazonLinux",
    centos  |-> "installKubeadmCentOS",
    debian  |-> "installKubeadmDebian",
    flatcar |-> "installKubeadmFlatcar",
    rhel    |-> "installKubeadmDebian",
    ubuntu  |-> "installKubeadmDebian" ]

\* the dispatch table of installKubeadm
installKubeadmTable ==
  [ amzn    |-> "installKubeadmAmazonLinux",
    centos  |-> "installKubeadmCentOS",
    debian  |-> "installKubeadmDebian",
    flatcar |-> "installKubeadmFlatcar",
    rhel    |-> "installKubeadmCentOS",
    ubuntu  |-> "installKubeadmDebian" ]

\* installKubeadmDebian that renders the script with the force flag unset
\* whatever s.ForceInstall is
installKubeadmDebianNoForce(force, oc) ==
  RunScript("kubeadm-debian", ForceArg(FALSE), oc)

\* the script each install procedure renders, and whether it is handed
\* s.ForceInstall
installKubeadmDebian(force, oc) ==
  RunScript("kubeadm-debian", ForceArg(force), oc)

installKubeadmCentOS(force, oc) ==
  RunScript("kubeadm-centos", ForceArg(force), oc)

installKubeadmAmazonLinux(force, oc) ==
  RunScript("kubeadm-amazon-linux", ForceArg(force), oc)

installKubeadmFlatcar(force, oc) ==
  RunScript("kubeadm-flatcar", "-", oc)

InstallScripts ==
  { "kubeadm-debian", "kubeadm-centos", "kubeadm-amazon-linux",
    "kubeadm-flatcar" }

RunProcedure(fn, force, oc) ==
  CASE fn = "installKubeadmDebian"      -> installKubeadmDebian(force, oc)
    [] fn = "installKubeadmCentOS"      -> installKubeadmCentOS(force, oc)
    [] fn = "installKubeadmAmazonLinux" -> installKubeadmAmazonLinux(force, oc)
    [] fn = "installKubeadmFlatcar"     -> installKubeadmFlatcar(force, oc)

\* runOnOS: look the OS up in the table, fail when it is not there
runOnOS(osName, table, force, oc) ==
  IF osName \in DOMAIN table
    THEN RunProcedure(table[osName], force, oc)
    ELSE [ events |-> << >>, err |-> << "unknown-os", osName >> ]

installKubeadm(osName, force, oc) ==
  runOnOS(osName, installKubeadmTable, force, oc)

\* installPrerequisitesOnNode that goes on to the install whatever setupProxy
\* returned
installPrerequisitesOnNodeIgnoreProxyError(osName, proxy, force, ocEnv, ocDropIn, ocKubeadm) ==
  LET p == setupProxy(proxy, ocEnv, ocDropIn)
      k == Wrapped(installKubeadm(osName, force, ocKubeadm),
                   "failed to install kubeadm")
  IN [ events |-> p.events \o k.events,
       err    |-> IF p.err # NoErr THEN p.err ELSE k.err ]

\* installPrerequisitesOnNode that runs the install and drops its error
installPrerequisitesOnNodeDropError(osName, proxy, force, ocEnv, ocDropIn, ocKubeadm) ==
  Then(setupProxy(proxy, ocEnv, ocDropIn),
       [ events |-> installKubeadm(osName, force, ocKubeadm).events,
         err    |-> NoErr ])

installPrerequisitesOnNode(osName, proxy, force, ocEnv, ocDropIn, ocKubeadm) ==
  Then(setupProxy(proxy, ocEnv, ocDropIn),
       Wrapped(installKubeadm(osName, force, ocKubeadm),
               "failed to install kubeadm"))

\* the closure of installPrerequisites: ctx.Runner.Run("kubeadm config
\* images pull"); the command is a template of the runner, there is no
\* separate render step
prePullImages(oc) ==
  [ events |-> << Ev("images-pull", "-", IF oc = "ok" THEN "ok" ELSE "failed") >>,
    err    |-> IF oc = "ok" THEN NoErr ELSE << "run", "images-pull" >> ]

\* --------------------------------------------------- nm-cloud-setup, reboot
\* s.LiveCluster.ControlPlane followed by s.LiveCluster.StaticWorkers: the
\* hosts in registry order, each with its ID
allHosts == [ i \in 1..NumHosts |-> i ]

\* host.Config.ID, as it is written into an event
HostID(h) == ToString(h)

\* the body of the loop for the host of the iteration: the command, the wait
\* and the close, all through the runner of the task
RebootEvents(host, oc) ==
  << Ev("disable-nm-cloud-setup", HostID(host),
        IF oc = "run" THEN "failed" ELSE "ok"),
     Ev("sleep", "1m", "ok"),
     Ev("close", HostID(host), "ok") >>

\* the loop returning the error of the disabling command
RECURSIVE disableLoopSurfaceError(_, _, _, _, _)
disableLoopSurfaceError(i, node, initOf, oc, acc) ==
  IF i > Len(allHosts) THEN [ events |-> acc, err |-> NoErr ]
  ELSE IF node = allHosts[i] /\ ~initOf[allHosts[i]]
    THEN IF "disable-nm-cloud-setup" \in unrenderable
           THEN [ events |-> acc,
                  err    |-> << "render", "disable-nm-cloud-setup" >> ]
           ELSE IF oc = "run"
             THEN [ events |-> acc \o << RebootEvents(allHosts[i], oc)[1] >>,
                    err    |-> << "run", "disable-nm-cloud-setup" >> ]
             ELSE disableLoopSurfaceError(i + 1, node, initOf, oc,
                                          acc \o RebootEvents(allHosts[i], oc))
    ELSE disableLoopSurfaceError(i + 1, node, initOf, oc, acc)

\* the loop without the close of the connection
RECURSIVE disableLoopNoClose(_, _, _, _, _)
disableLoopNoClose(i, node, initOf, oc, acc) ==
  IF i > Len(allHosts) THEN [ events |-> acc, err |-> NoErr ]
  ELSE IF node = allHosts[i] /\ ~initOf[allHosts[i]]
    THEN IF "disable-nm-cloud-setup" \in unrenderable
           THEN [ events |-> acc,
                  err    |-> << "render", "disable-nm-cloud-setup" >> ]
           ELSE disableLoopNoClose(i + 1, node, initOf, oc,
                                   acc \o SubSeq(RebootEvents(allHosts[i], oc), 1, 2))
    ELSE disableLoopNoClose(i + 1, node, initOf, oc, acc)

\* the loop without the comparison of the IDs: every uninitialized host of
\* the registry makes the node run the command
RECURSIVE disableLoopAnyHost(_, _, _, _, _)
disableLoopAnyHost(i, node, initOf, oc, acc) ==
  IF i > Len(allHosts) THEN [ events |-> acc, err |-> NoErr ]
  ELSE IF ~initOf[allHosts[i]]
    THEN IF "disable-nm-cloud-setup" \in unrenderable
           THEN [ events |-> acc,
                  err    |-> << "render", "disable-nm-cloud-setup" >> ]
           ELSE disableLoopAnyHost(i + 1, node, initOf, oc,
                                   acc \o RebootEvents(allHosts[i], oc))
    ELSE disableLoopAnyHost(i + 1, node, initOf, oc, acc)

\* the loop without the test of host.Initialized()
RECURSIVE disableLoopIgnoreInitialized(_, _, _, _, _)
disableLoopIgnoreInitialized(i, node, initOf, oc, acc) ==
  IF i > Len(allHosts) THEN [ events |-> acc, err |-> NoErr ]
  ELSE IF node = allHosts[i]
    THEN IF "disable-nm-cloud-setup" \in unrenderable
           THEN [ events |-> acc,
                  err    |-> << "render", "disable-nm-cloud-setup" >> ]
           ELSE disableLoopIgnoreInitialized(i + 1, node, initOf, oc,
                                             acc \o RebootEvents(allHosts[i], oc))
    ELSE disableLoopIgnoreInitialized(i + 1, node, initOf, oc, acc)

\* the loop with the comparison of the IDs inverted: the node runs the
\* command for the other uninitialized hosts of the registry
RECURSIVE disableLoopOtherHosts(_, _, _, _, _)
disableLoopOtherHosts(i, node, initOf, oc, acc) ==
  IF i > Len(allHosts) THEN [ events |-> acc, err |-> NoErr ]
  ELSE IF node # allHosts[i] /\ ~initOf[allHosts[i]]
    THEN IF "disable-nm-cloud-setup" \in unrenderable
           THEN [ events |-> acc,
                  err    |-> << "render", "disable-nm-cloud-setup" >> ]
           ELSE disableLoopOtherHosts(i + 1, node, initOf, oc,
                                      acc \o RebootEvents(allHosts[i], oc))
    ELSE disableLoopOtherHosts(i + 1, node, initOf, oc, acc)

\* the loop of disableNMCloudSetup over allHosts, from index i on
RECURSIVE disableLoop(_, _, _, _, _)
disableLoop(i, node, initOf, oc, acc) ==
  IF i > Len(allHosts) THEN [ events |-> acc, err |-> NoErr ]
  ELSE IF node = allHosts[i] /\ ~initOf[allHosts[i]]
    THEN IF "disable-nm-cloud-setup" \in unrenderable
           THEN [ events |-> acc,
                  err    |-> << "render", "disable-nm-cloud-setup" >> ]
           ELSE disableLoop(i + 1, node, initOf, oc,
                            acc \o RebootEvents(allHosts[i], oc))
    ELSE disableLoop(i + 1, node, initOf, oc, acc)

\* disableNMCloudSetup that takes a CentOS node as it takes a RHEL node
disableNMCloudSetupFamily(node, osOf, initOf, oc) ==
  IF osOf[node] \notin { OperatingSystemNameRHEL, OperatingSystemNameCentOS }
    THEN Nothing
    ELSE disableLoop(1, node, initOf, oc, << >>)

disableNMCloudSetup(node, osOf, initOf, oc) ==
  IF osOf[node] # OperatingSystemNameRHEL THEN Nothing
  ELSE disableLoop(1, node, initOf, oc, << >>)

\* ---------------------------------------------------- configuration bundle
\* s.Configuration: an ordered collection of <<path, content>>, paths unique,
\* a later add of the same path overwrites
AddFile(b, path, content) ==
  IF \E i \in 1..Len(b) : b[i][1] = path
    THEN [ i \in 1..Len(b) |->
             IF b[i][1] = path THEN << path, content >> ELSE b[i] ]
    ELSE Append(b, << path, content >>)

\* AddFilePath reads the source file; an unreadable file is an error and
\* adds nothing
AddFilePath(b, path, content, readable) ==
  IF readable THEN [ bundle |-> AddFile(b, path, content), err |-> NoErr ]
  ELSE [ bundle |-> b, err |-> << "read", path >> ]

Paths(b) == { b[i][1] : i \in 1..Len(b) }

EncryptionModes == { "off", "should", "enabled" }

\* s.ShouldEnableEncryption(): the feature is on, the live cluster has it off
ShouldEnableEncryption(feat) == feat.enc = "should"

\* s.EncryptionEnabled(): the feature is on and the live cluster has it on
EncryptionEnabled(feat) == feat.enc = "enabled"

EncryptionProviderConfigPath == "cfg/encryption-providers.yaml"

\* the four sections of generateConfigurationFiles, each from the bundle the
\* previous one left
genCloudConfig(b) ==
  [ bundle |-> AddFile(b, "cfg/cloud-config", "cloud-config"), err |-> NoErr ]

genAuditPolicy(b, feat, readable) ==
  IF feat.audit
    THEN LET r == AddFilePath(b, "cfg/audit-policy.yaml", "audit-policy-file",
                              readable)
         IN [ bundle |-> r.bundle,
              err    |-> Wrap(r.err, "unable to add policy file") ]
    ELSE [ bundle |-> b, err |-> NoErr ]

genPodNodeSelector(b, feat, admissionOK, readable) ==
  IF feat.pns
    THEN IF ~admissionOK
           THEN [ bundle |-> b,
                  err |-> << "failed to generate admissionconfiguration manifest",
                             "admission" >> ]
           ELSE LET b1 == AddFile(b, "cfg/admission-config.yaml",
                                  "admission-config")
                    r  == AddFilePath(b1, "cfg/podnodeselector.yaml",
                                      "podnodeselector-file", readable)
                IN [ bundle |-> r.bundle,
                     err |-> Wrap(r.err,
                                  "failed to add podnodeselector config file") ]
    ELSE [ bundle |-> b, err |-> NoErr ]

\* genEncryptionProviders that synthesizes a configuration whenever none was
\* supplied, also for a cluster that has encryption on already
genEncryptionProvidersAlwaysSynthesize(b, feat, synthOK) ==
  IF ShouldEnableEncryption(feat) \/ EncryptionEnabled(feat)
    THEN IF feat.custom
           THEN [ bundle |-> AddFile(b, EncryptionProviderConfigPath,
                                     "custom-encryption-config"),
                  err |-> NoErr ]
           ELSE IF ~synthOK
                  THEN [ bundle |-> b, err |-> << "encryption-providers" >> ]
                  ELSE [ bundle |-> AddFile(b, EncryptionProviderConfigPath,
                                            "generated-encryption-config"),
                         err |-> NoErr ]
    ELSE [ bundle |-> b, err |-> NoErr ]

genEncryptionProviders(b, feat, synthOK) ==
  IF ShouldEnableEncryption(feat) \/ EncryptionEnabled(feat)
    THEN IF feat.custom
           THEN [ bundle |-> AddFile(b, EncryptionProviderConfigPath,
                                     "custom-encryption-config"),
                  err |-> NoErr ]
           ELSE IF ShouldEnableEncryption(feat)
             THEN IF ~synthOK
                    THEN [ bundle |-> b, err |-> << "encryption-providers" >> ]
                    ELSE [ bundle |-> AddFile(b, EncryptionProviderConfigPath,
                                              "generated-encryption-config"),
                           err |-> NoErr ]
             ELSE [ bundle |-> b, err |-> NoErr ]
    ELSE [ bundle |-> b, err |-> NoErr ]

\* generateConfigurationFiles that returns nil where a section failed
generateConfigurationFilesSwallowError(b, feat, auditOK, admissionOK, pnsOK, synthOK) ==
  LET r1 == genCloudConfig(b)
      r2 == genAuditPolicy(r1.bundle, feat, auditOK)
      r3 == genPodNodeSelector(r2.bundle, feat, admissionOK, pnsOK)
      r4 == genEncryptionProviders(r3.bundle, feat, synthOK)
  IN IF r2.err # NoErr THEN [ bundle |-> r2.bundle, err |-> NoErr ]
     ELSE IF r3.err # NoErr THEN [ bundle |-> r3.bundle, err |-> NoErr ]
     ELSE [ bundle |-> r4.bundle, err |-> NoErr ]

\* a; if err != nil { return err }; b -- on bundles
generateConfigurationFiles(b, feat, auditOK, admissionOK, pnsOK, synthOK) ==
  LET r1 == genCloudConfig(b)
      r2 == genAuditPolicy(r1.bundle, feat, auditOK)
      r3 == genPodNodeSelector(r2.bundle, feat, admissionOK, pnsOK)
      r4 == genEncryptionProviders(r3.bundle, feat, synthOK)
  IN IF r2.err # NoErr THEN r2
     ELSE IF r3.err # NoErr THEN r3
     ELSE r4

\* ------------------------------------------------------- upload, per node
\* s.Configuration.UploadTo(conn, s.WorkDir): transfers the entries in order;
\* a failure leaves the first k of them on the host
UploadTo(b, ok, k) ==
  IF ok THEN [ events |-> << Ev("upload", "-", "ok") >>, err |-> NoErr,
               files |-> { b[i] : i \in 1..Len(b) } ]
  ELSE [ events |-> << Ev("upload", "-", "failed") >>, err |-> << "upload" >>,
         files |-> { b[i] : i \in 1..k } ]

\* uploadConfigurationFilesToNode that does not look at what UploadTo returned
uploadConfigurationFilesToNodeIgnoreUploadError(b, upOK, k, oc1, oc2, oc3, oc4) ==
  LET up == UploadTo(b, upOK, k)
      r  == Then(RunScript("save-cloud-config", "-", oc1),
            Then(RunScript("save-audit-policy-config", "-", oc2),
            Then(RunScript("save-pod-node-selector-config", "-", oc3),
                 RunScript("save-encryption-providers-config", "-", oc4))))
  IN [ events |-> up.events \o r.events, err |-> r.err, files |-> up.files ]

\* uploadConfigurationFilesToNode that goes on to the next script when the
\* save-cloud-config script failed
uploadConfigurationFilesToNodeSkipFailedSave(b, upOK, k, oc1, oc2, oc3, oc4) ==
  LET up == UploadTo(b, upOK, k)
      s1 == RunScript("save-cloud-config", "-", oc1)
      r  == Then(Wrapped([ events |-> up.events, err |-> up.err ],
                         "failed to upload"),
            Then([ events |-> s1.events, err |-> NoErr ],
            Then(RunScript("save-audit-policy-config", "-", oc2),
            Then(RunScript("save-pod-node-selector-config", "-", oc3),
                 RunScript("save-encryption-providers-config", "-", oc4)))))
  IN [ events |-> r.events, err |-> r.err, files |-> up.files ]

uploadConfigurationFilesToNode(b, upOK, k, oc1, oc2, oc3, oc4) ==
  LET up == UploadTo(b, upOK, k)
      r  == Then(Wrapped([ events |-> up.events, err |-> up.err ],
                         "failed to upload"),
            Then(RunScript("save-cloud-config", "-", oc1),
            Then(RunScript("save-audit-policy-config", "-", oc2),
            Then(RunScript("save-pod-node-selector-config", "-", oc3),
                 RunScript("save-encryption-providers-config", "-", oc4)))))
  IN [ events |-> r.events, err |-> r.err, files |-> up.files ]

\* ----------------------------------------------------------------- pipeline
RunnerStages == { "install", "pull", "disable", "upload" }
FinalStages  == { "success", "fatal" }

\* installPrerequisites with the image pre-pull ahead of the per-node install
installPrerequisitesPullFirst(st, failed) ==
  CASE st = "enter"               -> "pull"
    [] st = "pull" /\ failed      -> "return-error"
    [] st = "pull" /\ ~failed     -> "install"
    [] st = "install" /\ failed   -> "return-error"
    [] st = "install" /\ ~failed  -> "return-nil"

\* installPrerequisites that goes on to the pre-pull whatever the install
\* returned
installPrerequisitesIgnoreError(st, failed) ==
  CASE st = "enter"               -> "install"
    [] st = "install"             -> "pull"
    [] st = "pull" /\ failed      -> "return-error"
    [] st = "pull" /\ ~failed     -> "return-nil"

\* installPrerequisites: from where it stands (entering, or after the runner
\* call of a stage returned, failed or not) to what it does next
installPrerequisites(st, failed) ==
  CASE st = "enter"               -> "install"
    [] st = "install" /\ failed   -> "return-error"
    [] st = "install" /\ ~failed  -> "pull"
    [] st = "pull" /\ failed      -> "return-error"
    [] st = "pull" /\ ~failed     -> "return-nil"

\* the install task handed to the runner in sequence mode
installPrerequisitesModeSequence == RunSequence

\* the mode each runner call is made in
installPrerequisitesMode == RunParallel
prePullImagesMode == RunParallel
uploadConfigurationFilesMode == RunParallel
disableNMCloudSetupMode == RunSequence

ModeOf(st) ==
  CASE st = "install" -> installPrerequisitesMode
    [] st = "pull"    -> prePullImagesMode
    [] st = "disable" -> disableNMCloudSetupMode
    [] st = "upload"  -> uploadConfigurationFilesMode

\* the tasks of the pipeline, in the order they are run
Pipeline ==
  << "generateConfigurationFiles", "installPrerequisites",
     "disableNMCloudSetup", "uploadConfigurationFiles" >>

TaskOf(st) ==
  CASE st = "generate" -> "generateConfigurationFiles"
    [] st \in { "install", "pull" } -> "installPrerequisites"
    [] st = "disable" -> "disableNMCloudSetup"
    [] st = "upload" -> "uploadConfigurationFiles"

EntryStage(task) ==
  CASE task = "generateConfigurationFiles" -> "generate"
    [] task = "installPrerequisites" -> installPrerequisites("enter", FALSE)
    [] task = "disableNMCloudSetup" -> "disable"
    [] task = "uploadConfigurationFiles" -> "upload"

IndexOf(task) == CHOOSE i \in 1..Len(Pipeline) : Pipeline[i] = task

\* a task that returns an error ends the run; otherwise the next task starts
AfterTask(task, failed) ==
  IF failed THEN "fatal"
  ELSE IF IndexOf(task) = Len(Pipeline) THEN "success"
  ELSE EntryStage(Pipeline[IndexOf(task) + 1])

NextStage(st, failed) ==
  IF TaskOf(st) = "installPrerequisites"
    THEN LET n == installPrerequisites(st, failed)
         IN IF n = "return-error" THEN AfterTask(TaskOf(st), TRUE)
            ELSE IF n = "return-nil" THEN AfterTask(TaskOf(st), FALSE)
            ELSE n
    ELSE AfterTask(TaskOf(st), failed)

\* ------------------------------------------------------------- connections
\* Connector.Connect: the cached connection of the host, or a new one that
\* is put in the cache
Connect(h) ==
  IF cache[h] # 0 THEN [ conn |-> cache[h], opened |-> FALSE ]
  ELSE [ conn |-> gen[h] + 1, opened |-> TRUE ]

\* the events of a task as they happen on the host: each with the connection
\* it goes over and whether that connection is open at that moment; a close
\* closes the connection for the events after it
RECURSIVE Annotate(_, _, _, _)
Annotate(evs, c, st, live) ==
  IF evs = << >> THEN << >>
  ELSE LET e == Head(evs)
       IN << [ ev |-> e[1], arg |-> e[2], status |-> e[3], conn |-> c,
               live |-> live, stage |-> st ] >>
          \o Annotate(Tail(evs), c, st, live /\ e[1] # "close")

Closes(evs) == \E i \in 1..Len(evs) : evs[i][1] = "close"

\* --------------------------------------------------------------------- Init
FeatureSets ==
  [ audit : BOOLEAN, pns : BOOLEAN, enc : EncryptionModes, custom : BOOLEAN ]

NoFeatures == [ audit |-> FALSE, pns |-> FALSE, enc |-> "off", custom |-> FALSE ]

StaticAuditLog == [ NoFeatures EXCEPT !.audit = TRUE ]

AllStages == RunnerStages \cup { "generate" }

InitRun ==
  /\ stage = EntryStage(Pipeline[1])
  /\ failedAt = "none"
  /\ tstate = [ h \in Hosts |-> "pending" ]
  /\ result = [ h \in Hosts |-> NoErr ]
  /\ attempts = [ h \in Hosts |-> 0 ]
  /\ errs = { }
  /\ ret = { }
  /\ cache = [ h \in Hosts |-> 0 ]
  /\ gen = [ h \in Hosts |-> 0 ]
  /\ closed = [ h \in Hosts |-> { } ]
  /\ held = [ h \in Hosts |-> 0 ]
  /\ log = [ h \in Hosts |-> << >> ]
  /\ bundle = << >>
  /\ workdir = [ h \in Hosts |-> { } ]
  /\ run = 1
  /\ installed = [ h \in Hosts |-> 0 ]

\* the pipeline on rosters of RHEL, CentOS and Debian hosts, behind a proxy,
\* with and without the static audit log; a step of any stage may fail
PipelineOS ==
  { OperatingSystemNameRHEL, OperatingSystemNameCentOS,
    OperatingSystemNameDebian }

Init ==
  /\ os \in [ Hosts -> PipelineOS ]
  /\ initialized \in [ Hosts -> BOOLEAN ]
  /\ proxySet = TRUE
  /\ forceInstall = FALSE
  /\ features \in { NoFeatures, StaticAuditLog }
  /\ faults = AllStages
  /\ unrenderable \in { { }, { "disable-nm-cloud-setup" } }
  /\ flagless = "always"
  /\ InitRun

\* ------------------------------------------------------- environment inputs
\* the outcomes of the n scripts of a task: all succeed or, in a stage where
\* steps may fail, one fails (what follows the first failure is never run)
OutcomeVectors(n, st) ==
  { [ i \in 1..n |-> "ok" ] } \cup
  ( IF st \in faults
      THEN { [ i \in 1..n |-> IF i = f THEN "run" ELSE "ok" ] : f \in 1..n }
      ELSE { } )

Readable(st) == IF st \in faults THEN BOOLEAN ELSE { TRUE }

\* What an install script does on the host when it runs to its end: given the
\* force flag it installs; given the flag unset it installs unless the
\* packages are present; a script rendered without the flag does one or the
\* other, the same at every run.
FlaglessScripts == { "always", "if-absent" }

ScriptInstalls(arg, present) ==
  CASE arg = "force"   -> TRUE
    [] arg = "noforce" -> ~present
    [] OTHER           -> flagless = "always" \/ ~present

\* the installations the events of a task carry out on the host
Installations(evs, present) ==
  IF \E i \in 1..Len(evs) :
       /\ evs[i][1] \in InstallScripts
       /\ evs[i][3] = "ok"
       /\ ScriptInstalls(evs[i][2], present)
    THEN 1 ELSE 0

\* ------------------------------------------------------------------ actions
\* generateConfigurationFiles, run once, not per host
Generate ==
  /\ stage = "generate"
  /\ \E auditOK, admissionOK, pnsOK, synthOK \in Readable(stage) :
       LET r == generateConfigurationFiles(bundle, features, auditOK,
                                           admissionOK, pnsOK, synthOK)
       IN /\ bundle' = r.bundle
          /\ stage' = NextStage(stage, r.err # NoErr)
          /\ failedAt' = IF r.err # NoErr THEN stage ELSE failedAt
  /\ UNCHANGED << registry, tstate, result, attempts, errs, ret, cache, gen,
                  closed, held, log, workdir, run, installed >>

\* StartTask without the abort of sequence mode: the next host is started
\* whatever the hosts before it returned
StartTaskNoAbort(h) ==
  /\ stage \in RunnerStages
  /\ tstate[h] = "pending"
  /\ ModeOf(stage) = RunSequence =>
       \A j \in Hosts : j < h => tstate[j] = "done"
  /\ LET c == Connect(h)
     IN /\ held' = [ held EXCEPT ![h] = c.conn ]
        /\ cache' = [ cache EXCEPT ![h] = c.conn ]
        /\ gen' = [ gen EXCEPT ![h] = IF c.opened THEN @ + 1 ELSE @ ]
  /\ tstate' = [ tstate EXCEPT ![h] = "running" ]
  /\ attempts' = [ attempts EXCEPT ![h] = @ + 1 ]
  /\ UNCHANGED << registry, stage, failedAt, result, errs, ret, closed, log,
                  bundle, workdir, run, installed >>

\* the runner starts the task of a host: in sequence mode the hosts before it
\* in the registry have finished without error
StartTask(h) ==
  /\ stage \in RunnerStages
  /\ tstate[h] = "pending"
  /\ ModeOf(stage) = RunSequence =>
       \A j \in Hosts : j < h => tstate[j] = "done" /\ result[j] = NoErr
  /\ LET c == Connect(h)
     IN /\ held' = [ held EXCEPT ![h] = c.conn ]
        /\ cache' = [ cache EXCEPT ![h] = c.conn ]
        /\ gen' = [ gen EXCEPT ![h] = IF c.opened THEN @ + 1 ELSE @ ]
  /\ tstate' = [ tstate EXCEPT ![h] = "running" ]
  /\ attempts' = [ attempts EXCEPT ![h] = @ + 1 ]
  /\ UNCHANGED << registry, stage, failedAt, result, errs, ret, closed, log,
                  bundle, workdir, run, installed >>

\* Collect that keeps the last error only
CollectLast(es, h, err) == IF err = NoErr THEN es ELSE { << h, err >> }

\* the runner keeps the error of a failed task, tagged with its host
Collect(es, h, err) == IF err = NoErr THEN es ELSE es \cup { << h, err >> }

\* the task of host h returns r: its events reach the host, a close closes
\* the connection of the task and drops it from the cache
Finish(h, r) ==
  /\ log' = [ log EXCEPT ![h] =
                @ \o Annotate(r.events, held[h], stage,
                              held[h] \notin closed[h]) ]
  /\ closed' = [ closed EXCEPT ![h] =
                   IF Closes(r.events) THEN @ \cup { held[h] } ELSE @ ]
  /\ cache' = [ cache EXCEPT ![h] =
                  IF Closes(r.events) /\ @ = held[h] THEN 0 ELSE @ ]
  /\ held' = [ held EXCEPT ![h] = 0 ]
  /\ result' = [ result EXCEPT ![h] = r.err ]
  /\ errs' = Collect(errs, h, r.err)
  /\ tstate' = [ tstate EXCEPT ![h] = "done" ]
  /\ UNCHANGED << registry, stage, failedAt, attempts, ret, gen, bundle, run >>

RunInstall(h) ==
  /\ stage = "install"
  /\ tstate[h] = "running"
  /\ \E oc \in OutcomeVectors(3, stage) :
       LET r == installPrerequisitesOnNode(os[h], proxySet, forceInstall,
                                           oc[1], oc[2], oc[3])
       IN /\ Finish(h, r)
          /\ installed' = [ installed EXCEPT
                              ![h] = @ + Installations(r.events, @ > 0) ]
  /\ UNCHANGED workdir

RunPull(h) ==
  /\ stage = "pull"
  /\ tstate[h] = "running"
  /\ \E oc \in OutcomeVectors(1, stage) : Finish(h, prePullImages(oc[1]))
  /\ UNCHANGED << workdir, installed >>

RunDisable(h) ==
  /\ stage = "disable"
  /\ tstate[h] = "running"
  /\ \E oc \in OutcomeVectors(1, stage) :
       Finish(h, disableNMCloudSetup(h, os, initialized, oc[1]))
  /\ UNCHANGED << workdir, installed >>

RunUpload(h) ==
  /\ stage = "upload"
  /\ tstate[h] = "running"
  /\ \E upOK \in Readable(stage), k \in 0..Len(bundle),
        oc \in OutcomeVectors(4, stage) :
       /\ (upOK => k = Len(bundle)) /\ (~upOK => k < Len(bundle))
       /\ LET r == uploadConfigurationFilesToNode(bundle, upOK, k,
                                                  oc[1], oc[2], oc[3], oc[4])
          IN /\ Finish(h, [ events |-> r.events, err |-> r.err ])
             /\ workdir' = [ workdir EXCEPT ![h] = @ \cup r.files ]
  /\ UNCHANGED installed

\* RunTaskOnAllNodes returns: in parallel mode when every task has finished,
\* in sequence mode at the first failure or after the last host; it returns
\* the collected errors (none: nil)
Return ==
  /\ stage \in RunnerStages
  /\ \A h \in Hosts : tstate[h] # "running"
  /\ IF ModeOf(stage) = RunSequence
       THEN \/ \A h \in Hosts : tstate[h] = "done"
            \/ \E h \in Hosts : tstate[h] = "done" /\ result[h] # NoErr
       ELSE \A h \in Hosts : tstate[h] = "done"
  /\ ret' = errs
  /\ stage' = NextStage(stage, errs # { })
  /\ IF errs # { }
       THEN /\ failedAt' = stage
            /\ UNCHANGED << tstate, result, attempts, errs >>
       ELSE /\ failedAt' = failedAt
            /\ tstate' = [ h \in Hosts |-> "pending" ]
            /\ result' = [ h \in Hosts |-> NoErr ]
            /\ attempts' = [ h \in Hosts |-> 0 ]
            /\ errs' = { }
  /\ UNCHANGED << registry, cache, gen, closed, held, log, bundle, workdir,
                  run, installed >>

Next ==
  \/ Generate
  \/ \E h \in Hosts : StartTask(h)
  \/ \E h \in Hosts : RunInstall(h)
  \/ \E h \in Hosts : RunPull(h)
  \/ \E h \in Hosts : RunDisable(h)
  \/ \E h \in Hosts : RunUpload(h)
  \/ Return

Spec == Init /\ [][Next]_vars

\* The operator runs the pipeline again after it ended: the run context is
\* built anew (no bundle, no runner state, no cached connection); what is on
\* the hosts stays.
Rerun ==
  /\ stage \in FinalStages
  /\ run < MaxRuns
  /\ run' = run + 1
  /\ stage' = EntryStage(Pipeline[1])
  /\ failedAt' = "none"
  /\ tstate' = [ h \in Hosts |-> "pending" ]
  /\ result' = [ h \in Hosts |-> NoErr ]
  /\ attempts' = [ h \in Hosts |-> 0 ]
  /\ errs' = { }
  /\ ret' = { }
  /\ cache' = [ h \in Hosts |-> 0 ]
  /\ held' = [ h \in Hosts |-> 0 ]
  /\ bundle' = << >>
  /\ UNCHANGED << registry, gen, closed, log, workdir, installed >>

NextRerun == Next \/ Rerun

\* the reboot handling on rosters of every operating system, hosts initialized
\* or not, the disabling script renderable or not; the command may fail
InitReboot ==
  /\ os \in [ Hosts -> OSNames ]
  /\ initialized \in [ Hosts -> BOOLEAN ]
  /\ proxySet = FALSE
  /\ forceInstall = FALSE
  /\ features = NoFeatures
  /\ faults = { "disable" }
  /\ unrenderable \in { { }, { "disable-nm-cloud-setup" } }
  /\ flagless = "always"
  /\ InitRun

SpecReboot == InitReboot /\ [][Next]_vars

\* rosters in which the hosts take the mapped operating systems in turn,
\* starting from every other one of them
MappedOS ==
  << OperatingSystemNameDebian, OperatingSystemNameFlatcar,
     OperatingSystemNameCentOS, OperatingSystemNameUbuntu,
     OperatingSystemNameAmazon, OperatingSystemNameRHEL >>

MixedRosters ==
  { [ h \in Hosts |-> MappedOS[((h + k) % Len(MappedOS)) + 1] ] :
      k \in { j \in 1..Len(MappedOS) : j % 2 = 1 } }

\* the runs of the pipeline on mixed rosters, with and without the force
\* flag; a step of the install stage may fail
InitRerun ==
  /\ os \in MixedRosters
  /\ initialized = [ h \in Hosts |-> TRUE ]
  /\ proxySet = FALSE
  /\ forceInstall \in BOOLEAN
  /\ features = NoFeatures
  /\ faults = { "install" }
  /\ unrenderable = { }
  /\ flagless \in FlaglessScripts
  /\ InitRun

SpecRerun == InitRerun /\ [][NextRerun]_vars

\* the runs of the pipeline on Debian hosts with the audit-policy, the
\* pod-node-selector and the encryption features on or off; generation may
\* fail
InitRegen ==
  /\ os = [ h \in Hosts |-> OperatingSystemNameDebian ]
  /\ initialized = [ h \in Hosts |-> TRUE ]
  /\ proxySet = FALSE
  /\ forceInstall = FALSE
  /\ features \in { f \in FeatureSets : f.enc \in { "off", "should" } /\ ~f.custom }
  /\ faults = { "generate" }
  /\ unrenderable = { }
  /\ flagless = "always"
  /\ InitRun

SpecRegen == InitRegen /\ [][NextRerun]_vars

\* the install dispatch on rosters of every operating system, none of the
\* hosts initialized; a step of the install stage may fail
InitDispatch ==
  /\ os \in [ Hosts -> OSNames ]
  /\ initialized = [ h \in Hosts |-> FALSE ]
  /\ proxySet = FALSE
  /\ forceInstall \in BOOLEAN
  /\ features = NoFeatures
  /\ faults = { "install" }
  /\ unrenderable = { }
  /\ flagless = "always"
  /\ InitRun

SpecDispatch == InitDispatch /\ [][Next]_vars

\* the proxy setup on rosters of Debian and CentOS hosts, with and without
\* proxy variables, the drop-in script renderable or not; a step of the
\* install stage may fail
InitProxy ==
  /\ os \in [ Hosts -> { OperatingSystemNameDebian, OperatingSystemNameCentOS } ]
  /\ initialized = [ h \in Hosts |-> FALSE ]
  /\ proxySet \in BOOLEAN
  /\ forceInstall = FALSE
  /\ features = NoFeatures
  /\ faults = { "install" }
  /\ unrenderable \in { { }, { "daemons-environment-drop-in" } }
  /\ flagless = "always"
  /\ InitRun

SpecProxy == InitProxy /\ [][Next]_vars

\* the configuration bundle under every combination of the feature flags, on
\* rosters of Debian and RHEL hosts; generation and upload may fail
InitBundle ==
  /\ os \in [ Hosts -> { OperatingSystemNameDebian, OperatingSystemNameRHEL } ]
  /\ initialized = [ h \in Hosts |-> TRUE ]
  /\ proxySet = FALSE
  /\ forceInstall = FALSE
  /\ features \in FeatureSets
  /\ faults = { "generate", "upload" }
  /\ unrenderable = { }
  /\ flagless = "always"
  /\ InitRun

SpecBundle == InitBundle /\ [][Next]_vars

\* a fair run on rosters of uninitialized RHEL and Debian hosts: the runner's
\* goroutines and the pipeline keep being scheduled
InitFair ==
  /\ os \in [ Hosts -> { OperatingSystemNameRHEL, OperatingSystemNameDebian } ]
  /\ initialized = [ h \in Hosts |-> FALSE ]
  /\ proxySet = TRUE
  /\ forceInstall = FALSE
  /\ features = NoFeatures
  /\ faults = AllStages
  /\ unrenderable = { }
  /\ flagless = "always"
  /\ InitRun

FairSpec == InitFair /\ [][Next]_vars /\ WF_vars(Next)

\* ---------------------------------------------------------------- helpers
HasEvent(h, name) == \E i \in 1..Len(log[h]) : log[h][i].ev = name

HasStageEvent(h, st) == \E i \in 1..Len(log[h]) : log[h][i].stage = st

\* the RHEL family of the design document
RHELFamily == { OperatingSystemNameRHEL, OperatingSystemNameCentOS }

\* an event that is a command or a transfer over the connection
IsCommand(e) == e.ev \notin { "sleep", "close" }

\* the runner calls the pipeline makes in parallel mode and in sequence mode
ParallelStages == { "install", "pull", "upload" }
SequenceStages == { "disable" }

\* the runner call in progress, or the one whose error ended the run
CallStage == IF stage = "fatal" THEN failedAt ELSE stage

\* a step in which the runner call of stage st returns
Returns(st) == stage = st /\ stage' # stage

\* ------------------------------------------------------------------- C1
\* C1: in sequence mode the hosts are visited in registry order; once the
\* task failed on host i no host after i is attempted in that call (it is not
\* started and receives no event of the stage), and the call returns the error
\* of host i tagged with i.
C1_SequentialAbort ==
  CallStage \in SequenceStages =>
    /\ \A i, j \in Hosts :
         (i < j /\ attempts[j] > 0) => tstate[i] = "done" /\ result[i] = NoErr
    /\ \A i, j \in Hosts :
         (i < j /\ result[i] # NoErr) =>
            /\ attempts[j] = 0
            /\ tstate[j] = "pending"
            /\ ~HasStageEvent(j, CallStage)
    /\ stage = "fatal" =>
         \E i \in Hosts : result[i] # NoErr /\ ret = { << i, result[i] >> }

\* a sequence call that failed on a host that is not the last
C1_Witness ==
  /\ stage = "fatal"
  /\ failedAt \in SequenceStages
  /\ \E i \in Hosts :
       /\ result[i] # NoErr
       /\ i < NumHosts
       /\ \A j \in Hosts : j > i => attempts[j] = 0

\* ------------------------------------------------------------------- C2
\* C2: in parallel mode every host's task is started exactly once and runs
\* to completion whatever the other hosts' tasks return; the call returns only
\* when every task has finished, and it does return.
C2_ParallelRunsAll ==
  /\ [](\A h \in Hosts : attempts[h] <= 1)
  /\ [][ \A st \in ParallelStages :
           Returns(st) =>
             \A h \in Hosts : attempts[h] = 1 /\ tstate[h] = "done" ]_vars
  /\ \A st \in ParallelStages : (stage = st) ~> (stage # st)

\* a parallel call returned with a failed and a successful host, both having
\* run their task
C2_Witness ==
  /\ stage = "fatal"
  /\ failedAt \in ParallelStages
  /\ \E h1, h2 \in Hosts :
       /\ h1 < h2
       /\ result[h1] # NoErr
       /\ result[h2] = NoErr
       /\ tstate[h2] = "done"
       /\ HasStageEvent(h2, failedAt)

\* ------------------------------------------------------------------- C3
\* C3: when a parallel call returns, the hosts named in the returned error
\* are exactly the hosts whose task returned an error, each with its own
\* cause; the call returns no error iff no task failed.
C3_AggregateExact ==
  [][ \A st \in ParallelStages :
        Returns(st) =>
          /\ { e[1] : e \in ret' } = { h \in Hosts : result[h] # NoErr }
          /\ \A e \in ret' : e[2] = result[e[1]]
          /\ (ret' = { }) <=> (\A h \in Hosts : result[h] = NoErr) ]_vars

\* a parallel call returned an error naming two hosts
C3_Witness ==
  /\ stage = "fatal"
  /\ failedAt \in ParallelStages
  /\ Cardinality(ret) >= 2

\* ------------------------------------------------------------------- C4
\* the pipeline step an event belongs to
EventStep(e) ==
  CASE e.ev \in { "environment-file", "daemons-environment-drop-in" }
         -> "SetupProxy"
    [] e.ev \in InstallScripts -> "InstallKubeadm"
    [] e.ev = "images-pull" -> "PullImages"
    [] e.ev \in { "disable-nm-cloud-setup", "sleep", "close" }
         -> "DisableConflictingBootService"
    [] OTHER -> "UploadConfig"

Pos(order, x) == CHOOSE i \in 1..Len(order) : order[i] = x

\* on every host the events follow the order of the steps
InOrder(order) ==
  \A h \in Hosts : \A i, j \in 1..Len(log[h]) :
    i < j => Pos(order, EventStep(log[h][i])) <= Pos(order, EventStep(log[h][j]))

\* what generation added is in the bundle when an upload reads it, and a
\* transfer that succeeded left exactly the bundle on the host
BundleReadyAtUpload ==
  \A h \in Hosts :
    HasEvent(h, "upload") =>
      /\ failedAt # "generate"
      /\ "cfg/cloud-config" \in Paths(bundle)
      /\ features.audit => "cfg/audit-policy.yaml" \in Paths(bundle)
      /\ (\E i \in 1..Len(log[h]) :
            log[h][i].ev = "upload" /\ log[h][i].status = "ok")
           => workdir[h] = { bundle[i] : i \in 1..Len(bundle) }

ListedOrder ==
  << "PullImages", "GenerateConfig", "SetupProxy", "InstallKubeadm",
     "DisableConflictingBootService", "UploadConfig" >>

CodeOrder ==
  << "GenerateConfig", "SetupProxy", "InstallKubeadm", "PullImages",
     "DisableConflictingBootService", "UploadConfig" >>

\* C4 as stated: on every host the steps run in the listed order, the image
\* pre-pull before the proxy setup and the kubeadm install, and the bundle
\* entries of the generation are present when an upload reads the bundle.
C4_ListedOrder == InOrder(ListedOrder) /\ BundleReadyAtUpload

\* C4 amended: on every host the steps run in the order SetupProxy,
\* InstallKubeadm, PullImages, DisableConflictingBootService, UploadConfig
\* (the image pre-pull after the proxy setup and the kubeadm install), and
\* the bundle entries of the generation are present when an upload reads
\* the bundle.
C4_CodeOrder == InOrder(CodeOrder) /\ BundleReadyAtUpload

\* a host that went through every step, the transfer of the bundle included
C4_Witness ==
  \E h \in Hosts :
    /\ { EventStep(log[h][i]) : i \in 1..Len(log[h]) } =
         { "SetupProxy", "InstallKubeadm", "PullImages",
           "DisableConflictingBootService", "UploadConfig" }
    /\ workdir[h] # { }
    /\ features.audit

\* ------------------------------------------------------------------- C5
RunOrder == << "generate", "install", "pull", "disable", "upload" >>

\* C5: a stage that fails on some host ends the pipeline in Fatal, nothing
\* happens after Fatal, and no host ever receives an event of a later stage
\* (an install that failed: no pre-pull on any host).
C5_FailureStops ==
  /\ [](failedAt # "none" =>
          /\ stage = "fatal"
          /\ \A h \in Hosts : \A i \in 1..Len(log[h]) :
               Pos(RunOrder, log[h][i].stage) <= Pos(RunOrder, failedAt))
  /\ [][ (stage \in RunnerStages /\ stage' # stage
            /\ \E h \in Hosts : result[h] # NoErr) => stage' = "fatal" ]_vars
  /\ [][ stage # "fatal" ]_vars

\* the install failed on one host and succeeded on another: Fatal, and no
\* host was sent the pre-pull
C5_Witness ==
  /\ stage = "fatal"
  /\ failedAt = "install"
  /\ \E h1, h2 \in Hosts : result[h1] # NoErr /\ result[h2] = NoErr
  /\ \A h \in Hosts : tstate[h] = "done" /\ ~HasEvent(h, "images-pull")

\* ------------------------------------------------------------------- C6
\* the disable task of host h has returned
DisableDone(h) == CallStage = "disable" /\ tstate[h] = "done"

\* C6: on an uninitialized RHEL-family host the disable task returns no error
\* once the disabling command was issued, whether the command succeeded or
\* failed (a CentOS host is never sent it and returns no error either); an
\* error of the disable stage never names a host that was sent the command.
C6_RebootErrorDiscarded ==
  /\ \A h \in Hosts :
       (os[h] \in RHELFamily /\ ~initialized[h] /\ DisableDone(h)) =>
          /\ HasEvent(h, "disable-nm-cloud-setup") => result[h] = NoErr
          /\ os[h] = OperatingSystemNameCentOS => result[h] = NoErr
  /\ (stage = "fatal" /\ failedAt = "disable") =>
       \A e \in ret : ~HasEvent(e[1], "disable-nm-cloud-setup")

\* the disabling command failed on an uninitialized RHEL host and the task
\* returned nil
C6_Witness ==
  \E h \in Hosts :
    /\ os[h] = OperatingSystemNameRHEL /\ ~initialized[h] /\ DisableDone(h)
    /\ \E i \in 1..Len(log[h]) :
         log[h][i].ev = "disable-nm-cloud-setup" /\ log[h][i].status = "failed"
    /\ result[h] = NoErr

\* ------------------------------------------------------------------- C7
\* the reboot handling of host h just ended: the command, the sleep, the close,
\* in this order, are the last events of the host, the connection of the
\* command is closed and the cache has no connection of the host
RebootHandled(h) ==
  /\ Len(log[h]) >= 3
  /\ LET n == Len(log[h])
     IN /\ log[h][n - 2].ev = "disable-nm-cloud-setup"
        /\ log[h][n - 1].ev = "sleep"
        /\ log[h][n].ev = "close"
        /\ log[h][n - 2].live
        /\ log[h][n].conn = log[h][n - 2].conn
        /\ log[h][n].conn \in closed[h]
  /\ cache[h] = 0

\* C7 as stated: every uninitialized RHEL-family host (the script being
\* renderable) gets the command, the wait and the close in this order, and
\* its connection is closed and out of the cache after the step.
C7_FamilyRebootOrder ==
  \A h \in Hosts :
    (os[h] \in RHELFamily /\ ~initialized[h] /\ DisableDone(h)
       /\ "disable-nm-cloud-setup" \notin unrenderable) => RebootHandled(h)

\* C7 amended: every uninitialized host whose operating system is RHEL (not
\* CentOS), the script being renderable, gets the command, the wait and the
\* close in this order, and its connection is closed and out of the cache
\* after the step, whether the command failed or succeeded.
C7_RHELRebootOrder ==
  \A h \in Hosts :
    (os[h] = OperatingSystemNameRHEL /\ ~initialized[h] /\ DisableDone(h)
       /\ "disable-nm-cloud-setup" \notin unrenderable) => RebootHandled(h)

\* an uninitialized RHEL host after a disabling command that succeeded
C7_Witness ==
  \E h \in Hosts :
    /\ os[h] = OperatingSystemNameRHEL /\ ~initialized[h] /\ DisableDone(h)
    /\ RebootHandled(h)
    /\ log[h][Len(log[h]) - 2].status = "ok"

\* ------------------------------------------------------------------- C8
\* C8: every command and transfer goes over a connection that is open at that
\* moment, and what runs on a host after a close of its connection goes over
\* a connection opened after that close.
C8_NoUseAfterClose ==
  \A h \in Hosts : \A j \in 1..Len(log[h]) :
    IsCommand(log[h][j]) =>
      /\ log[h][j].live
      /\ \A i \in 1..Len(log[h]) :
           (i < j /\ log[h][i].ev = "close") => log[h][j].conn > log[h][i].conn

\* an upload on a host whose connection was closed by the reboot handling
C8_Witness ==
  \E h \in Hosts : \E i, j \in 1..Len(log[h]) :
    /\ i < j
    /\ log[h][i].ev = "close"
    /\ log[h][j].ev = "upload"
    /\ log[h][j].live

\* ------------------------------------------------------------------- C9
\* C9: an initialized RHEL-family host is never sent the disabling command:
\* no command, no wait, no close in the disable stage, its connection stays
\* open and cached, and its disable task returns no error.
C9_InitializedSkipped ==
  \A h \in Hosts :
    (os[h] \in RHELFamily /\ initialized[h]) =>
      /\ ~HasStageEvent(h, "disable")
      /\ ~HasEvent(h, "disable-nm-cloud-setup")
      /\ closed[h] = { }
      /\ DisableDone(h) => result[h] = NoErr /\ cache[h] # 0

\* an initialized RHEL host whose disable task returned, in a run where the
\* other hosts are handled
C9_Witness ==
  \E h \in Hosts :
    /\ os[h] = OperatingSystemNameRHEL /\ initialized[h] /\ DisableDone(h)
    /\ "disable-nm-cloud-setup" \notin unrenderable

\* ------------------------------------------------------------------ C10
\* the install scripts run on a host
InstallEvents(h) ==
  { log[h][i].ev : i \in { k \in 1..Len(log[h]) : log[h][k].ev \in InstallScripts } }

\* the operating systems that are to share an install procedure
ProcedureGroups ==
  { { OperatingSystemNameRHEL, OperatingSystemNameCentOS },
    { OperatingSystemNameDebian, OperatingSystemNameUbuntu },
    { OperatingSystemNameAmazon },
    { OperatingSystemNameFlatcar } }

\* C10: the install procedure run on a host depends on its operating system
\* only: two hosts run the same procedure iff their operating systems are
\* equal, or RHEL and CentOS, or Debian and Ubuntu; Amazon Linux and Flatcar
\* each have a procedure no other operating system gets.
C10_DispatchByOS ==
  \A h1, h2 \in Hosts :
    \A s1 \in InstallEvents(h1), s2 \in InstallEvents(h2) :
      (s1 = s2) <=> (\E g \in ProcedureGroups : os[h1] \in g /\ os[h2] \in g)

\* a RHEL host and a CentOS host both ran their install procedure
C10_Witness ==
  \E h1, h2 \in Hosts :
    /\ os[h1] = OperatingSystemNameRHEL
    /\ os[h2] = OperatingSystemNameCentOS
    /\ InstallEvents(h1) # { }
    /\ InstallEvents(h2) # { }

\* ------------------------------------------------------------------ C11
\* the install task of host h has returned
InstallDone(h) == CallStage = "install" /\ tstate[h] = "done"

\* C11: a host whose operating system is not in the dispatch table runs no
\* install script, its install task returns an error, and the pipeline never
\* gets past the install stage with such a host.
C11_UnmappedOSFails ==
  \A h \in Hosts :
    os[h] \notin DOMAIN installKubeadmTable =>
      /\ InstallEvents(h) = { }
      /\ InstallDone(h) => result[h] # NoErr
      /\ stage \in { "generate", "install", "fatal" }

\* a host of unknown operating system whose install task got as far as the
\* dispatch, next to a host that was installed
C11_Witness ==
  \E h1, h2 \in Hosts :
    /\ os[h1] = OperatingSystemNameUnknown
    /\ InstallDone(h1)
    /\ HasEvent(h1, "environment-file")
    /\ result[h1][Len(result[h1]) - 1] = "unknown-os"
    /\ InstallDone(h2)
    /\ InstallEvents(h2) # { }

\* ------------------------------------------------------------------ C12
\* the events of the proxy setup on host h
ProxyEvents(h) ==
  { log[h][i].ev : i \in { k \in 1..Len(log[h]) :
                             EventStep(log[h][k]) = "SetupProxy" } }

\* the step of the install task the error err comes from (its outermost
\* message)
FailedStep(err) == err[1]

\* C12 as stated: with no proxy variable set the proxy setup runs no command
\* on any host, neither the environment-file script nor the drop-in script,
\* and returns no error.
C12_NoProxyNoCommand ==
  ~proxySet =>
    \A h \in Hosts :
      /\ ProxyEvents(h) = { }
      /\ (InstallDone(h) /\ result[h] # NoErr) =>
           FailedStep(result[h]) = "failed to install kubeadm"

\* C12 amended: with no proxy variable set the proxy setup never runs the
\* drop-in script; it still runs the environment-file script on every host
\* whose install task ran, and it returns an error only when that script
\* fails.
C12_NoProxyNoDropIn ==
  ~proxySet =>
    \A h \in Hosts :
      /\ ~HasEvent(h, "daemons-environment-drop-in")
      /\ InstallDone(h) => HasEvent(h, "environment-file")
      /\ (InstallDone(h) /\ result[h] # NoErr) =>
           \/ FailedStep(result[h]) = "failed to install kubeadm"
           \/ /\ FailedStep(result[h]) = "failed to create environment file"
              /\ log[h][Len(log[h])].ev = "environment-file"
              /\ log[h][Len(log[h])].status = "failed"

\* no proxy variable is set, the drop-in script would not even render, and a
\* host finished its install task without error
C12_Witness ==
  /\ ~proxySet
  /\ "daemons-environment-drop-in" \in unrenderable
  /\ \E h \in Hosts :
       /\ InstallDone(h)
       /\ result[h] = NoErr
       /\ ProxyEvents(h) = { "environment-file" }
       /\ InstallEvents(h) # { }

\* ------------------------------------------------------------------ C19
\* the events of the install stage on host h, in the order they happened
StageLog(h, st) == SelectSeq(log[h], LAMBDA e : e.stage = st)

\* the sub-steps of the install task in the order of the code; the install
\* scripts of all systems share the last position
SubStep(e) ==
  CASE e.ev = "environment-file"            -> 1
    [] e.ev = "daemons-environment-drop-in" -> 2
    [] OTHER                                -> 3

\* the install call of the runner has returned
InstallReturned ==
  \/ stage \in { "pull", "disable", "upload", "success" }
  \/ stage = "fatal" /\ failedAt # "generate"

\* C19: on every host the sub-steps of the install task run in the order
\* environment file, drop-in, kubeadm install, each at most once and each only
\* after the previous one succeeded; when the environment-file or the drop-in
\* step fails no install script runs on that host and its task fails; a host
\* whose own steps succeed runs all of them whatever happens on the others,
\* and no host is left out of the call.
C19_SubStepsInOrder ==
  /\ \A h \in Hosts :
       LET l == StageLog(h, "install")
       IN /\ \A i, j \in 1..Len(l) : i < j => SubStep(l[i]) < SubStep(l[j])
          /\ \A i \in 1..Len(l) : l[i].status = "failed" => i = Len(l)
          /\ (InstallDone(h) /\ result[h] # NoErr
                /\ FailedStep(result[h]) # "failed to install kubeadm") =>
               InstallEvents(h) = { }
          /\ (InstallDone(h) /\ l # << >> /\ l[Len(l)].status = "failed") =>
               result[h] # NoErr
          /\ (InstallDone(h) /\ result[h] = NoErr) =>
               /\ HasEvent(h, "environment-file")
               /\ proxySet => HasEvent(h, "daemons-environment-drop-in")
               /\ InstallEvents(h) # { }
               /\ \A i \in 1..Len(l) : l[i].status = "ok"
  /\ InstallReturned => \A h \in Hosts : HasEvent(h, "environment-file")

\* the drop-in step failed on one host, which ran no install script and
\* failed, while another host ran its three sub-steps without error
C19_Witness ==
  \E h1, h2 \in Hosts :
    /\ InstallDone(h1)
    /\ HasEvent(h1, "daemons-environment-drop-in")
    /\ log[h1][Len(log[h1])].status = "failed"
    /\ InstallEvents(h1) = { }
    /\ result[h1] # NoErr
    /\ InstallDone(h2)
    /\ result[h2] = NoErr
    /\ Len(StageLog(h2, "install")) = 3

\* ------------------------------------------------------------------ C13
\* the generation phase ended without error
Generated == stage # "generate" /\ failedAt # "generate"

Entry(path) == { b \in { bundle[i] : i \in 1..Len(bundle) } : b[1] = path }

\* paths of the bundle that do not depend on the encryption feature
PlainPaths ==
  { "cfg/cloud-config" }
    \cup (IF features.audit THEN { "cfg/audit-policy.yaml" } ELSE { })
    \cup (IF features.pns
            THEN { "cfg/admission-config.yaml", "cfg/podnodeselector.yaml" }
            ELSE { })

\* C13 as stated: after a successful generation the bundle holds the
\* cloud-config entry always, the audit-policy entry iff static audit logging
\* is on, the admission-config and pod-node-selector entries iff the
\* pod-node-selector feature is on, and an encryption-provider entry iff
\* encryption is enabled or required.
C13_PathsByFlags ==
  Generated =>
    Paths(bundle) =
      PlainPaths \cup
        (IF ShouldEnableEncryption(features) \/ EncryptionEnabled(features)
           THEN { EncryptionProviderConfigPath } ELSE { })

\* C13 amended: as stated for the first four entries; the encryption-provider
\* entry is present iff encryption is enabled or required and a configuration
\* was supplied (copied verbatim), or encryption is required and none was
\* supplied (synthesized); a cluster with encryption already enabled and no
\* supplied configuration gets no entry.
C13_PathsByFlagsAndConfig ==
  Generated =>
    /\ Paths(bundle) =
         PlainPaths \cup
           (IF \/ ShouldEnableEncryption(features)
               \/ EncryptionEnabled(features) /\ features.custom
              THEN { EncryptionProviderConfigPath } ELSE { })
    /\ Entry(EncryptionProviderConfigPath) \subseteq
         { << EncryptionProviderConfigPath,
              IF features.custom THEN "custom-encryption-config"
              ELSE "generated-encryption-config" >> }
    /\ Len(bundle) = Cardinality(Paths(bundle))

\* generation succeeded with every feature on, encryption already enabled on
\* the cluster and no configuration supplied
C13_Witness ==
  /\ Generated
  /\ features.audit /\ features.pns
  /\ EncryptionEnabled(features) /\ ~features.custom
  /\ Paths(bundle) = { "cfg/cloud-config", "cfg/audit-policy.yaml",
                       "cfg/admission-config.yaml", "cfg/podnodeselector.yaml" }

\* ------------------------------------------------------------------ C14
BundleEntries == { bundle[i] : i \in 1..Len(bundle) }

\* the upload task of host h returned without error
UploadedOK(h) ==
  CallStage = "upload" /\ tstate[h] = "done" /\ result[h] = NoErr

\* C14: once the upload task of a host returned without error, and on every
\* host once the pipeline succeeded, the working directory of the host holds
\* every entry of the bundle, path and content, among them every path the
\* feature flags call for; no step of a runner call adds, removes or changes
\* a bundle entry.
C14_BundleRoundTrip ==
  /\ [](\A h \in Hosts :
          (UploadedOK(h) \/ stage = "success") =>
            /\ BundleEntries \subseteq workdir[h]
            /\ PlainPaths \subseteq { f[1] : f \in workdir[h] })
  /\ [][(stage \in RunnerStages) => (bundle' = bundle)]_vars

\* the pipeline succeeded with the audit-policy and pod-node-selector
\* features on: every working directory holds the four entries of the bundle
C14_Witness ==
  /\ stage = "success"
  /\ features.audit /\ features.pns /\ features.enc = "off"
  /\ Len(bundle) = 4
  /\ \A h \in Hosts : workdir[h] = BundleEntries

\* ------------------------------------------------------------------ C17
\* the install scripts that ran to their end on host h, over all runs
RECURSIVE CountOK(_)
CountOK(l) ==
  IF l = << >> THEN 0
  ELSE (IF l[1].ev \in InstallScripts /\ l[1].status = "ok" THEN 1 ELSE 0)
         + CountOK(Tail(l))

\* host h honours the force flag: of the install scripts that succeeded on
\* it, every one carried out the installation when the flag is set, and only
\* the first one when it is not
HonoursForce(h) ==
  LET n == CountOK(log[h])
  IN installed[h] = IF forceInstall THEN n ELSE IF n > 0 THEN 1 ELSE 0

\* C17 as stated: the force flag is honoured on every host with a mapped
\* operating system, Flatcar included: with the flag unset an install that
\* follows a successful one installs nothing, with the flag set every install
\* is carried out.
C17_ForceHonoured ==
  \A h \in Hosts : os[h] \in DOMAIN installKubeadmTable => HonoursForce(h)

\* C17 amended: the same on every host with a mapped operating system other
\* than Flatcar; the Flatcar script is rendered without the flag.
C17_ForceHonouredButFlatcar ==
  \A h \in Hosts :
    /\ (os[h] \in DOMAIN installKubeadmTable
          /\ os[h] # OperatingSystemNameFlatcar) => HonoursForce(h)
    /\ \A i \in 1..Len(log[h]) :
         log[h][i].ev \in InstallScripts =>
           log[h][i].arg = IF os[h] = OperatingSystemNameFlatcar THEN "-"
                           ELSE ForceArg(forceInstall)

\* the second run ended: with the flag set a Debian host was installed
\* twice, or with the flag unset a CentOS host ran its script twice and was
\* installed once; a Flatcar host is in the roster
C17_Witness ==
  /\ run = 2
  /\ stage = "success"
  /\ \E h \in Hosts : os[h] = OperatingSystemNameFlatcar
  /\ \E h \in Hosts :
       /\ CountOK(log[h]) = 2
       /\ \/ forceInstall /\ os[h] = OperatingSystemNameDebian
               /\ installed[h] = 2
          \/ ~forceInstall /\ os[h] = OperatingSystemNameCentOS
               /\ installed[h] = 1

\* ------------------------------------------------------------------ C15
\* the paths the feature flags call for
ExpectedPaths ==
  PlainPaths \cup
    (IF \/ ShouldEnableEncryption(features)
        \/ EncryptionEnabled(features) /\ features.custom
       THEN { EncryptionProviderConfigPath } ELSE { })

\* C15: when an add fails generation returns its error and the run ends
\* there: no task is started and no working directory changes in that run; a
\* working directory changes only in the upload stage of a run whose
\* generation succeeded, and the bundle then holds every entry the flags call
\* for; every run starts its generation from the empty bundle.
C15_GenerationAtomic ==
  /\ [](failedAt = "generate" =>
          /\ stage = "fatal"
          /\ \A h \in Hosts : tstate[h] = "pending" /\ attempts[h] = 0)
  /\ [](stage = "generate" => bundle = << >>)
  /\ [][(workdir' # workdir) =>
          /\ stage = "upload"
          /\ Paths(bundle) = ExpectedPaths
          /\ \A h \in Hosts : workdir'[h] \subseteq BundleEntries]_vars
  /\ [][(failedAt = "generate") =>
          (workdir' = workdir /\ log' = log /\ bundle' = << >>)]_vars

\* the generation of the second run failed on the pod-node-selector file
\* after two entries were added, as the first run had failed: nothing is in
\* any working directory
C15_Witness ==
  /\ run = 2
  /\ failedAt = "generate"
  /\ features.audit /\ features.pns
  /\ Paths(bundle) = { "cfg/cloud-config", "cfg/audit-policy.yaml" }
  /\ \A h \in Hosts : workdir[h] = { } /\ log[h] = << >>

\* ------------------------------------------------------------------ C16
\* the transfer and the install-into-final-location scripts in the order of
\* the code
UploadOrder ==
  << "upload", "save-cloud-config", "save-audit-policy-config",
     "save-pod-node-selector-config", "save-encryption-providers-config" >>

UploadDone(h) == CallStage = "upload" /\ tstate[h] = "done"

\* C16: on every host the events of the upload task are a prefix of the
\* transfer followed by the scripts for the cloud config, the audit policy,
\* the pod-node-selector config and the encryption-provider config; a script
\* runs only after the transfer succeeded and left the whole bundle in the
\* working directory; an event that failed is the last one and the task that
\* met it returns an error; a task that returns none ran all four scripts.
C16_InstallAfterTransfer ==
  \A h \in Hosts :
    LET l == StageLog(h, "upload")
    IN /\ Len(l) <= Len(UploadOrder)
       /\ \A i \in 1..Len(l) :
            /\ l[i].ev = UploadOrder[i]
            /\ l[i].status = "failed" => i = Len(l)
       /\ Len(l) > 1 =>
            /\ l[1].status = "ok"
            /\ BundleEntries \subseteq workdir[h]
       /\ (UploadDone(h) /\ l # << >> /\ l[Len(l)].status = "failed") =>
            result[h] # NoErr
       /\ (UploadDone(h) /\ result[h] = NoErr) =>
            /\ Len(l) = Len(UploadOrder)
            /\ \A i \in 1..Len(l) : l[i].status = "ok"

\* on one host the transfer stopped half-way and no script ran; on another
\* the audit-policy script failed after the cloud-config script and nothing
\* ran after it
C16_Witness ==
  \E h1, h2 \in Hosts :
    /\ UploadDone(h1) /\ UploadDone(h2)
    /\ Len(StageLog(h1, "upload")) = 1
    /\ workdir[h1] # { }
    /\ workdir[h1] # BundleEntries
    /\ result[h1] # NoErr
    /\ Len(StageLog(h2, "upload")) = 3
    /\ StageLog(h2, "upload")[3].status = "failed"
    /\ workdir[h2] = BundleEntries
    /\ result[h2] # NoErr

\* ------------------------------------------------------------------ C18
Renderable(name) == name \notin unrenderable

\* nothing of the reboot handling happened on host h and the connection its
\* task was given is open and in the cache
Untouched(h) ==
  /\ StageLog(h, "disable") = << >>
  /\ cache[h] # 0
  /\ cache[h] \notin closed[h]

\* C18 as stated: the disabling command (when it renders) is sent to every
\* host of the RHEL family, RHEL and CentOS alike, that has not joined the
\* cluster, and on a host of any other family nothing is issued, there is no
\* wait and the connection stays open.
C18_FamilyGetsCommand ==
  \A h \in Hosts :
    DisableDone(h) =>
      /\ (Renderable("disable-nm-cloud-setup") /\ os[h] \in RHELFamily
            /\ ~initialized[h]) => HasEvent(h, "disable-nm-cloud-setup")
      /\ os[h] \notin RHELFamily => Untouched(h)

\* C18 amended: the disabling command (when it renders) is sent to every RHEL
\* host that has not joined the cluster and to no other host; on a host of
\* any other operating system, CentOS included, nothing is issued, there is
\* no wait, the connection stays open and the task returns no error.
C18_RHELGetsCommand ==
  \A h \in Hosts :
    /\ HasStageEvent(h, "disable") =>
         os[h] = OperatingSystemNameRHEL /\ ~initialized[h]
    /\ DisableDone(h) =>
         /\ (Renderable("disable-nm-cloud-setup")
               /\ os[h] = OperatingSystemNameRHEL /\ ~initialized[h]) =>
              HasEvent(h, "disable-nm-cloud-setup")
         /\ os[h] # OperatingSystemNameRHEL =>
              Untouched(h) /\ result[h] = NoErr

\* the disable call went over a RHEL host, which was sent the command, and a
\* CentOS host, which was not, neither of them a member of the cluster
C18_Witness ==
  \E h1, h2 \in Hosts :
    /\ os[h1] = OperatingSystemNameRHEL /\ ~initialized[h1]
    /\ DisableDone(h1)
    /\ HasEvent(h1, "disable-nm-cloud-setup")
    /\ os[h2] = OperatingSystemNameCentOS /\ ~initialized[h2]
    /\ DisableDone(h2)
    /\ Untouched(h2)

\* ------------------------------------------------------------------ C20
\* what belongs to host h alone: its slot of the cache, its connections and
\* what happened on it
Slot(h) == << cache[h], gen[h], closed[h], held[h], log[h], workdir[h] >>

SlotAfter(h) ==
  << cache'[h], gen'[h], closed'[h], held'[h], log'[h], workdir'[h] >>

\* the events host h gets in this step
NewEvents(h) == SubSeq(log'[h], Len(log[h]) + 1, Len(log'[h]))

====
